---- MODULE Spec2Model ----
(***************************************************************************)
(* Model of mcp-unipile: the HTTP client with its cursor pagination        *)
(* (unipile_client.py), the message normaliser and the aggregation         *)
(* wrapper (server.py, UnipileWrapper) and the two protocol handlers       *)
(* (server.py, handle_read_resource and handle_call_tool).                 *)
(***************************************************************************)
EXTENDS Integers, Sequences, FiniteSets, TLC

VARIABLES
  server,   \* the upstream's message pages of the chat: request cursor -> response
  env,      \* the upstream's answers to /accounts and /chats during the operation
  pc,       \* "idle", "running" (inside the pagination loop) or "done"
  op,       \* the operation called last
  args,     \* its arguments
  cursor,   \* get_all_messages: the local variable cursor
  out,      \* get_all_messages: the messages yielded so far
  reqs,     \* the transport calls of the run: the params of each request
  beat,     \* get_all_messages: the parity of the iterations of the loop
  res       \* the value the last finished operation returned, or the exception
            \* it raised

vars == <<server, env, pc, op, args, cursor, out, reqs, beat, res>>

\* Bounds of the model.
MaxItems == 2      \* items in one page
MaxCalls == 4      \* requests and pages recorded in reqs and out
MaxParticipants == 2   \* conversation participants in one original payload

(***************************************************************************)
(* Python values.  Every value carries its type in t, so that isinstance,  *)
(* truthiness, .get and "in" can be decided as Python decides them.        *)
(***************************************************************************)
Str(s) == [t |-> "str", v |-> s]
PyNone == [t |-> "null"]
Dict(f) == [t |-> "dict", v |-> f]
List(s) == [t |-> "list", v |-> s]
\* A raised exception, as the result of an operator that models a call.
Raise(kind, msg) == [t |-> "exc", kind |-> kind, msg |-> msg]
IsExc(v) == v.t = "exc"
\* A string holding serialized JSON: valid text that parses to data, or
\* text that does not parse (truncated).
JsonText(valid, data) == [t |-> "str", json |-> [valid |-> valid, data |-> data]]

\* bool(v)
Truthy(v) ==
  CASE v.t = "null" -> FALSE
    [] v.t = "str" -> IF "json" \in DOMAIN v THEN TRUE ELSE v.v # ""
    [] v.t = "dict" -> DOMAIN v.v # {}
    [] v.t = "list" -> Len(v.v) > 0
    [] OTHER -> TRUE

\* d.get(k, default): AttributeError unless d is a dict.
DictGet(d, k, default) ==
  IF d.t # "dict" THEN Raise("AttributeError", "get")
  ELSE IF k \in DOMAIN d.v THEN d.v[k] ELSE default

\* d[k]: KeyError when the key is missing, TypeError unless d is a dict
\* (the model never indexes a list or a string by position).
DictItem(d, k) ==
  IF d.t # "dict" THEN Raise("TypeError", "subscript")
  ELSE IF k \in DOMAIN d.v THEN d.v[k] ELSE Raise("KeyError", k)

\* k in v: key test on a dict, element test on a list, substring test on a
\* string (the model's strings are atoms: one contains k only if it is k).
\* On None it raises TypeError: PyInRaises.
PyInRaises(v) == v.t \notin {"dict", "list", "str"}
PyIn(k, v) ==
  CASE v.t = "dict" -> k \in DOMAIN v.v
    [] v.t = "list" -> \E i \in 1..Len(v.v) : v.v[i] = Str(k)
    [] v.t = "str" -> IF "json" \in DOMAIN v THEN FALSE ELSE v.v = k
    [] OTHER -> FALSE

\* json.dumps(v) and json.loads(s).  loads raises TypeError when s is not a
\* string and JSONDecodeError when the text does not parse.
JsonDumps(v) == JsonText(TRUE, v)
JsonLoads(s) ==
  IF s.t # "str" THEN Raise("TypeError", "the JSON object must be str, bytes or bytearray")
  ELSE IF "json" \notin DOMAIN s THEN Raise("JSONDecodeError", "Expecting value")
  ELSE IF ~s.json.valid THEN Raise("JSONDecodeError", "Unterminated string")
  ELSE s.json.data

\* try: r  except Exception: fallback
Except(r, fallback) == IF IsExc(r) THEN fallback ELSE r

\* json.dumps({"error": str(e)})
ErrorDict(e) == Dict([error |-> Str(e.msg)])
ErrorPayload(e) == JsonDumps(ErrorDict(e))
\* isinstance(x, dict) and "error" in x
IsErrorDict(x) == x.t = "dict" /\ "error" \in DOMAIN x.v

\* f"{first_name} {last_name}".strip() for names without outer blanks.
JoinName(first, last) ==
  IF last = "" THEN first ELSE IF first = "" THEN last ELSE first \o " " \o last

\* The text of a value in an f-string (the model formats strings only).
TextOf(x) == IF x.t = "str" /\ "v" \in DOMAIN x THEN x.v ELSE "None"

(***************************************************************************)
(* UnipileWrapper._extract_person_info: one participant, then the loop.    *)
(***************************************************************************)
\* The entry written for a member whose firstName is structured, or the
\* exception that building it raises (lines 42-51).
MemberEntry(participant, member) ==
  LET first_name == DictGet(DictItem(member, "firstName"), "text", Str(""))
      lastName == DictGet(member, "lastName", PyNone)
      last_name == IF Truthy(lastName) THEN DictGet(lastName, "text", Str("")) ELSE Str("")
      headlineV == DictGet(member, "headline", PyNone)
      headline == IF Truthy(headlineV) THEN DictGet(headlineV, "text", Str("")) ELSE Str("")
      pronounV == DictGet(member, "pronoun", PyNone)
      pronoun == IF Truthy(pronounV) THEN DictGet(pronounV, "standardizedPronoun", Str("")) ELSE Str("")
      urn == DictItem(participant, "backendUrn")
  IN IF IsExc(last_name) THEN last_name
     ELSE IF IsExc(headline) THEN headline
     ELSE IF IsExc(pronoun) THEN pronoun
     ELSE IF IsExc(urn) THEN urn
     ELSE IF urn.t # "str" THEN Raise("TypeError", "unhashable type")
     ELSE [urn |-> urn.v,
           entry |-> Dict([name |-> Str(JoinName(TextOf(first_name), TextOf(last_name))),
                           headline |-> headline,
                           pronoun |-> pronoun])]

\* person_info[participant["backendUrn"]] = {...} (line 47), unless building
\* the entry raised.
SetEntry(person_info, e) ==
  IF "t" \in DOMAIN e THEN e
  ELSE Dict([k \in DOMAIN person_info.v \cup {e.urn} |->
               IF k = e.urn THEN e.entry ELSE person_info.v[k]])

\* The body of the for loop for one participant (lines 39-51): person_info
\* (a dict) after it, or the exception the body raises.
ParticipantStep(person_info, participant) ==
  IF PyInRaises(participant) THEN Raise("TypeError", "not iterable")
  ELSE IF ~PyIn("participantType", participant) THEN person_info
  ELSE
  LET ptype == DictItem(participant, "participantType")
  IN IF IsExc(ptype) THEN ptype
     ELSE IF PyInRaises(ptype) THEN Raise("TypeError", "not iterable")
     ELSE IF ~PyIn("member", ptype) THEN person_info
     ELSE
     LET member == DictItem(ptype, "member")
         firstName == DictGet(member, "firstName", PyNone)
     IN IF IsExc(member) THEN member
        ELSE IF IsExc(firstName) THEN firstName
        ELSE IF ~(Truthy(firstName) /\ firstName.t = "dict") THEN person_info
        ELSE SetEntry(person_info, MemberEntry(participant, member))

\* The for loop (line 38): an exception ends it.
RECURSIVE ParticipantLoop(_, _, _)
ParticipantLoop(person_info, participants, i) ==
  IF i > Len(participants) \/ IsExc(person_info) THEN person_info
  ELSE ParticipantLoop(ParticipantStep(person_info, participants[i]), participants, i + 1)

\* The try block of _extract_person_info (lines 35-52): the dict, or the
\* exception raised.  The payloads of the model give a list or None as
\* conversationParticipants.
PersonInfoTry(original_data) ==
  IF PyInRaises(original_data) THEN Raise("TypeError", "not iterable")
  ELSE IF ~PyIn("conversation", original_data) THEN Dict(<<>>)
  ELSE LET conv == DictItem(original_data, "conversation")
           participants == IF IsExc(conv) THEN conv
                           ELSE DictGet(conv, "conversationParticipants", List(<<>>))
       IN IF IsExc(participants) THEN participants
          ELSE IF participants.t # "list" THEN Raise("TypeError", "not iterable")
          ELSE ParticipantLoop(Dict(<<>>), participants.v, 1)

\* _extract_person_info: the dict backendUrn -> {name, headline, pronoun};
\* any exception in the try block yields the empty dict (lines 53-55).
extract_person_info(original_data) ==
  Except(PersonInfoTry(original_data), Dict(<<>>))

(***************************************************************************)
(* UnipileWrapper._extract_core_message                                    *)
(***************************************************************************)
\* if person_info: core_message["participants"] = person_info (lines 74-75)
WithParticipants(core_message, person_info) ==
  IF Truthy(person_info) THEN Dict(core_message @@ [participants |-> person_info])
  ELSE Dict(core_message)

\* The try block (lines 60-79): the core message, or the exception that
\* reaches the outer handler.  json.JSONDecodeError is caught inside.
CoreMessageTry(message) ==
  IF message.t # "dict" THEN Raise("AttributeError", "get")
  ELSE
  LET core_message == [id |-> DictGet(message, "id", Str("")),
                       text |-> DictGet(message, "text", Str("")),
                       timestamp |-> DictGet(message, "timestamp", Str("")),
                       sender_id |-> DictGet(message, "sender_id", Str("")),
                       chat_info |-> DictGet(message, "chat_info", Dict(<<>>))]
  IN IF ~PyIn("original", message) THEN Dict(core_message)
     ELSE LET original_data == JsonLoads(DictItem(message, "original"))
          IN IF IsExc(original_data)
             THEN IF original_data.kind = "JSONDecodeError" THEN Dict(core_message)
                  ELSE original_data
             ELSE WithParticipants(core_message, extract_person_info(original_data))

\* _extract_core_message: on any other exception the raw message itself is
\* returned (lines 80-82).
extract_core_message(message) == Except(CoreMessageTry(message), message)

(***************************************************************************)
(* The upstream: message pages by request cursor.                          *)
(***************************************************************************)
NoCursor == "<no cursor>"
Tokens == {"c1", "c2"}
CursorKeys == {NoCursor} \cup Tokens
BatchSizes == {1, 100}
ChatIds == {"chat1"}

MsgId(key, i) == (IF key = NoCursor THEN "m-first" ELSE "m-" \o key) \o "-" \o ToString(i)
RawMessage(key, i) == Dict([id |-> Str(MsgId(key, i))])
PageItems(key, n) == List([i \in 1..n |-> RawMessage(key, i)])

\* The cursor member of a response body: absent, null, empty or a token.
CursorFields ==
  {<<>>, [cursor |-> PyNone], [cursor |-> Str("")]} \cup {[cursor |-> Str(c)] : c \in Tokens}

HttpFailure == [status |-> "error", data |-> PyNone]
HttpOk(data) == [status |-> "ok", data |-> data]

\* What the upstream may answer to the request for the page at key.
PageResponses(key) ==
  {HttpFailure}
  \cup {HttpOk(Dict([object |-> Str("MessageList"), items |-> PageItems(key, n)] @@ c)) :
          n \in 0..MaxItems, c \in CursorFields}
  \cup {HttpOk(Dict([object |-> Str("ChatList"), items |-> PageItems(key, 1)] @@ c)) :
          c \in {<<>>, [cursor |-> Str("c1")]}}

Servers == {s \in [CursorKeys -> UNION {PageResponses(k) : k \in CursorKeys}] :
              \A k \in CursorKeys : s[k] \in PageResponses(k)}

(***************************************************************************)
(* UnipileClient.get_all_messages                                          *)
(***************************************************************************)
\* Mutant: the cursor of an earlier run survives into the next one.
InitialCursorKept(prev) == prev

\* cursor = None (line 100); prev is what an earlier run left behind.
InitialCursor(prev) == PyNone

\* params (lines 105-107)
RequestParams(batch_size, cur) ==
  IF Truthy(cur) THEN Dict([limit |-> batch_size, cursor |-> cur])
  ELSE Dict([limit |-> batch_size])

\* requests.get and raise_for_status (lines 110-113): the body, or HTTPError.
HttpGet(srv, params) ==
  LET key == IF "cursor" \in DOMAIN params.v THEN params.v.cursor.v ELSE NoCursor
      response == srv[key]
  IN IF response.status = "ok" THEN response.data
     ELSE Raise("HTTPError", "500 Server Error")

\* Mutant: the end of the stream is tested before the page is yielded, so
\* the items of the last page are lost.
PageStepBreaksFirst(cur, data) ==
  IF DictGet(data, "object", PyNone) = Str("MessageList")
  THEN LET messages == DictGet(data, "items", List(<<>>))
           newCursor == DictGet(data, "cursor", PyNone)
       IN [yielded |-> IF Truthy(newCursor) THEN messages.v ELSE <<>>,
           cursor |-> newCursor, stop |-> ~Truthy(newCursor)]
  ELSE [yielded |-> <<>>, cursor |-> cur, stop |-> TRUE]

\* Mutant: only a cursor that is None ends the loop ("is None" for "not").
PageStepNoneOnly(cur, data) ==
  IF DictGet(data, "object", PyNone) = Str("MessageList")
  THEN LET messages == DictGet(data, "items", List(<<>>))
           newCursor == DictGet(data, "cursor", PyNone)
       IN [yielded |-> messages.v, cursor |-> newCursor, stop |-> newCursor = PyNone]
  ELSE [yielded |-> <<>>, cursor |-> cur, stop |-> TRUE]

\* Mutant: the items of a body are yielded whatever its envelope.
PageStepAnyEnvelope(cur, data) ==
  IF DictGet(data, "object", PyNone) = Str("MessageList")
  THEN LET messages == DictGet(data, "items", List(<<>>))
           newCursor == DictGet(data, "cursor", PyNone)
       IN [yielded |-> messages.v, cursor |-> newCursor, stop |-> ~Truthy(newCursor)]
  ELSE [yielded |-> DictGet(data, "items", List(<<>>)).v, cursor |-> cur, stop |-> TRUE]

\* Lines 117-130 on one response body: the items yielded, the new value of
\* cursor, and whether the loop breaks.
PageStep(cur, data) ==
  IF DictGet(data, "object", PyNone) = Str("MessageList")
  THEN LET messages == DictGet(data, "items", List(<<>>))
           newCursor == DictGet(data, "cursor", PyNone)
       IN [yielded |-> messages.v, cursor |-> newCursor, stop |-> ~Truthy(newCursor)]
  ELSE [yielded |-> <<>>, cursor |-> cur, stop |-> TRUE]

\* Mutant: the failure is swallowed and the pages fetched so far returned.
get_messages_as_list_partial(yielded, exc) == List(yielded)

\* UnipileClient.get_messages_as_list: list(generator) of a finished run.
get_messages_as_list(yielded, exc) ==
  IF IsExc(exc) THEN exc ELSE List(yielded)

\* UnipileWrapper.get_chat_messages on what get_messages_as_list gave.
get_chat_messages(messages) ==
  IF IsExc(messages) THEN ErrorPayload(messages)
  ELSE JsonDumps(List([i \in 1..Len(messages.v) |-> extract_core_message(messages.v[i])]))

\* The value the operation returns (or raises) once the generator is finished.
RunResult(operation, yielded, exc) ==
  IF operation = "get_messages_as_list" THEN get_messages_as_list(yielded, exc)
  ELSE get_chat_messages(get_messages_as_list(yielded, exc))

NoEnv == [accounts |-> HttpFailure, chats |-> HttpFailure, messages |-> <<>>]
NoResult == PyNone

\* A call of get_messages_as_list or of get_chat_messages enters the
\* generator.
StartRun ==
  /\ pc # "running"
  /\ \E o \in {"get_messages_as_list", "get_chat_messages"}, c \in ChatIds, b \in BatchSizes :
       /\ op' = o
       /\ args' = [chat_id |-> c, batch_size |-> b]
  /\ cursor' = InitialCursor(cursor)
  /\ out' = <<>>
  /\ reqs' = <<>>
  /\ beat' = 0
  /\ pc' = "running"
  /\ UNCHANGED <<server, env, res>>

\* One iteration of the while loop; the iteration that ends the generator
\* also returns from (or raises out of) the caller.  reqs and out record the
\* first MaxCalls iterations; beat changes with every iteration.
FetchPage ==
  /\ pc = "running"
  /\ LET params == RequestParams(args.batch_size, cursor)
         data == HttpGet(server, params)
         rec == Len(reqs) < MaxCalls
     IN /\ reqs' = IF rec THEN Append(reqs, [chat_id |-> args.chat_id, params |-> params]) ELSE reqs
        /\ IF IsExc(data)
           THEN /\ pc' = "done"
                /\ res' = RunResult(op, out, data)
                /\ UNCHANGED <<cursor, out>>
           ELSE LET step == PageStep(cursor, data)
                IN /\ out' = IF rec THEN out \o step.yielded ELSE out
                   /\ cursor' = step.cursor
                   /\ pc' = IF step.stop THEN "done" ELSE "running"
                   /\ res' = IF step.stop THEN RunResult(op, out', PyNone) ELSE res
  /\ beat' = 1 - beat
  /\ UNCHANGED <<server, env, op, args>>

Init ==
  /\ server \in Servers
  /\ env = NoEnv
  /\ pc = "idle"
  /\ op = "none"
  /\ args = <<>>
  /\ cursor = PyNone
  /\ out = <<>>
  /\ reqs = <<>>
  /\ beat = 0
  /\ res = NoResult

Next == StartRun \/ FetchPage

Spec == Init /\ [][Next]_vars

\* The loop runs on: every transport call returns and the generator is
\* consumed by list().
FairSpec == Spec /\ WF_vars(FetchPage)

(***************************************************************************)
(* The upstream's answers to /accounts and /chats, and the message pages   *)
(* of each chat, as one environment value per operation.                   *)
(***************************************************************************)
Account1 == Dict([id |-> Str("acc1"), type |-> Str("LINKEDIN"), name |-> Str("Ada")])
AccountsResponses ==
  {HttpFailure,
   HttpOk(Dict([object |-> Str("AccountList"), items |-> List(<<>>)])),
   HttpOk(Dict([object |-> Str("AccountList"), items |-> List(<<Account1>>)])),
   HttpOk(Dict([object |-> Str("Error")]))}

Chat1 == Dict([id |-> Str("chat1"), name |-> Str("Alice"),
               account_type |-> Str("LINKEDIN"), account_id |-> Str("acc1")])
Chat2 == Dict([id |-> Str("chat2"), name |-> Str("Bob"),
               account_type |-> Str("WHATSAPP"), account_id |-> Str("acc1")])
ChatNoId == Dict([name |-> Str("Carol"), account_type |-> Str("MAIL"), account_id |-> Str("acc1")])
ChatEmptyId == Dict([id |-> Str(""), name |-> Str("Dan"),
                     account_type |-> Str("MAIL"), account_id |-> Str("acc1")])
ChatLists == {<<>>, <<Chat1>>, <<Chat1, Chat2>>, <<ChatNoId, Chat2>>, <<Chat2, ChatEmptyId, Chat1>>}
ChatsResponses ==
  {HttpFailure, HttpOk(Dict([object |-> Str("Error")]))}
  \cup {HttpOk(Dict([object |-> Str("ChatList"), items |-> List(cs)])) : cs \in ChatLists}

MessagePage(key, n, c) ==
  HttpOk(Dict([object |-> Str("MessageList"), items |-> PageItems(key, n)] @@ c))
TwoPages == (NoCursor :> MessagePage(NoCursor, 2, [cursor |-> Str("c1")]))
            @@ ("c1" :> MessagePage("c1", 1, <<>>)) @@ ("c2" :> HttpFailure)
OnePage == (NoCursor :> MessagePage(NoCursor, 1, [cursor |-> PyNone]))
           @@ ("c1" :> HttpFailure) @@ ("c2" :> HttpFailure)
FailsFirst == [k \in CursorKeys |-> HttpFailure]
FailsSecond == (NoCursor :> MessagePage(NoCursor, 2, [cursor |-> Str("c2")]))
               @@ ("c1" :> HttpFailure) @@ ("c2" :> HttpFailure)
MessageUpstreams ==
  {[chat1 |-> TwoPages, chat2 |-> OnePage],
   [chat1 |-> TwoPages, chat2 |-> FailsFirst],
   [chat1 |-> FailsSecond, chat2 |-> OnePage]}

Envs == [accounts : AccountsResponses, chats : ChatsResponses, messages : MessageUpstreams]

(***************************************************************************)
(* UnipileClient: get_accounts, get_chats, and the generator run to its    *)
(* end by list().                                                          *)
(***************************************************************************)
client_get_accounts(e) ==
  IF e.accounts.status # "ok" THEN Raise("HTTPError", "500 Server Error")
  ELSE IF DictGet(e.accounts.data, "object", PyNone) = Str("AccountList")
       THEN DictGet(e.accounts.data, "items", List(<<>>))
       ELSE List(<<>>)

\* def get_chats(self): the method takes no argument besides self, so a call
\* with keyword arguments raises TypeError before any request is made.
client_get_chats(kwargs, e) ==
  IF kwargs # {}
  THEN Raise("TypeError",
             "UnipileClient.get_chats() got an unexpected keyword argument '"
               \o (IF "account_id" \in kwargs THEN "account_id" ELSE "limit") \o "'")
  ELSE IF e.chats.status # "ok" THEN Raise("HTTPError", "500 Server Error")
  ELSE IF DictGet(e.chats.data, "object", PyNone) = Str("ChatList")
       THEN DictGet(e.chats.data, "items", List(<<>>))
       ELSE List(<<>>)

\* The while loop of get_all_messages run to its end on the pages srv: what
\* was yielded and the exception raised, if any.  The pages of an
\* environment end within MaxCalls requests.
RECURSIVE GeneratorRun(_, _, _, _, _)
GeneratorRun(srv, batch_size, cur, yielded, n) ==
  LET data == HttpGet(srv, RequestParams(batch_size, cur))
  IN IF IsExc(data) THEN [yielded |-> yielded, exc |-> data]
     ELSE LET step == PageStep(cur, data)
          IN IF step.stop \/ n >= MaxCalls
             THEN [yielded |-> yielded \o step.yielded, exc |-> PyNone]
             ELSE GeneratorRun(srv, batch_size, step.cursor, yielded \o step.yielded, n + 1)

ListOf(g) == get_messages_as_list(g.yielded, g.exc)
client_get_messages_as_list(srv, batch_size) ==
  ListOf(GeneratorRun(srv, batch_size, InitialCursor(PyNone), <<>>, 1))

(***************************************************************************)
(* UnipileWrapper: get_accounts, get_chats, get_all_messages               *)
(***************************************************************************)
wrapper_get_accounts(e) ==
  LET accounts == client_get_accounts(e)
  IN IF IsExc(accounts) THEN ErrorPayload(accounts) ELSE JsonDumps(accounts)

\* account_id.replace("_MESSAGING", "")
StripMessaging(account_id) == IF account_id = "acc1_MESSAGING" THEN "acc1" ELSE account_id

wrapper_get_chats(account_id, limit, e) ==
  IF account_id.t # "str"
  THEN ErrorPayload(Raise("AttributeError", "'NoneType' object has no attribute 'replace'"))
  ELSE LET id == StripMessaging(account_id.v)
           chats == client_get_chats({"account_id", "limit"}, e)
       IN IF IsExc(chats) THEN ErrorPayload(chats) ELSE JsonDumps(chats)

\* all_messages.extend(core_messages) (lines 134-135), unless the fetch
\* raised.
ExtendCore(all_messages, messages) ==
  IF IsExc(messages) THEN messages
  ELSE List(all_messages \o [j \in 1..Len(messages.v) |-> extract_core_message(messages.v[j])])

\* The body of the for loop of UnipileWrapper.get_all_messages for one chat
\* (lines 130-135): all_messages after it, or the exception raised.
AllMessagesStep(all_messages, chat, e) ==
  LET chat_id == DictGet(chat, "id", PyNone)
  IN IF IsExc(chat_id) THEN chat_id
     ELSE IF ~Truthy(chat_id) THEN List(all_messages)
     ELSE ExtendCore(all_messages, client_get_messages_as_list(e.messages[chat_id.v], 100))

\* The for loop (line 129): a fetch that fails ends it with the exception.
RECURSIVE AllMessagesLoop(_, _, _, _)
AllMessagesLoop(chats, i, all_messages, e) ==
  IF i > Len(chats) \/ IsExc(all_messages) THEN all_messages
  ELSE AllMessagesLoop(chats, i + 1, AllMessagesStep(all_messages.v, chats[i], e), e)

\* json.dumps of the result, or of {"error": str(e)} (lines 137-140)
DumpsOrError(r) == IF IsExc(r) THEN ErrorPayload(r) ELSE JsonDumps(r)

wrapper_get_all_messages(account_id, limit, e) ==
  LET chats == JsonLoads(wrapper_get_chats(account_id, limit, e))
  IN IF IsErrorDict(chats) THEN JsonDumps(chats)
     ELSE DumpsOrError(AllMessagesLoop(chats.v, 1, List(<<>>), e))

(***************************************************************************)
(* The handlers of main()                                                  *)
(***************************************************************************)
TextContent(text, uri) ==
  Dict([type |-> Str("text"), text |-> text, mimeType |-> Str("application/json"),
        uri |-> Str(uri)])

\* str(uri) and str(uri).replace("unipile://", "")
UriText(uri) == uri.scheme \o "://" \o uri.rest
UriPath(uri) == IF uri.scheme = "unipile" THEN uri.rest ELSE UriText(uri)

\* handle_read_resource: the scheme test stands before the try block, so its
\* ValueError leaves the handler; the accounts resource returns the string
\* of UnipileWrapper.get_accounts as it is.
handle_read_resource(uri, e) ==
  IF uri.scheme # "unipile"
  THEN Raise("ValueError", "Unsupported URI scheme: " \o uri.scheme)
  ELSE LET path == UriPath(uri)
       IN IF path = "accounts" THEN wrapper_get_accounts(e)
          ELSE List(<<TextContent(
                    ErrorPayload(Raise("ValueError", "Unknown resource path: " \o path)),
                    UriText(uri))>>)

\* message['chat_info'] = {...} (lines 244-249)
TagChatInfo(message, chat) ==
  LET info == Dict([id |-> DictGet(chat, "id", PyNone),
                    name |-> DictGet(chat, "name", PyNone),
                    account_type |-> DictGet(chat, "account_type", PyNone),
                    account_id |-> DictGet(chat, "account_id", PyNone)])
  IN Dict([k \in DOMAIN message.v \cup {"chat_info"} |->
             IF k = "chat_info" THEN info ELSE message.v[k]])

\* Lines 242-250: the messages of a chat, tagged, are added when
\* get_chat_messages gave a list; its error payload adds nothing.
ExtendTagged(all_messages, messages, chat) ==
  IF messages.t = "list"
  THEN all_messages \o [j \in 1..Len(messages.v) |-> TagChatInfo(messages.v[j], chat)]
  ELSE all_messages

\* The body of the for loop of handle_call_tool for one chat (lines
\* 239-250), over chats and messages that are dicts.
RecentMessagesStep(all_messages, chat, batch_size, e) ==
  LET chat_id == DictGet(chat, "id", PyNone)
  IN IF ~Truthy(chat_id) THEN all_messages
     ELSE ExtendTagged(all_messages,
                       JsonLoads(get_chat_messages(
                         client_get_messages_as_list(e.messages[chat_id.v], batch_size))),
                       chat)

\* The for loop (line 238).
RECURSIVE RecentMessagesLoop(_, _, _, _, _)
RecentMessagesLoop(chats, i, all_messages, batch_size, e) ==
  IF i > Len(chats) THEN all_messages
  ELSE RecentMessagesLoop(chats, i + 1,
                          RecentMessagesStep(all_messages, chats[i], batch_size, e),
                          batch_size, e)

\* The try block of handle_call_tool (lines 211-259): the returned list, or
\* the exception raised.
CallToolTry(name, arguments, e) ==
  IF name = "unipile_get_accounts"
  THEN List(<<TextContent(wrapper_get_accounts(e), "unipile://accounts")>>)
  ELSE IF name = "unipile_get_recent_messages"
  THEN IF ~Truthy(arguments)
       THEN Raise("ValueError", "Missing arguments for get_recent_messages")
       ELSE LET account_id == DictItem(arguments, "account_id")
                batch_size == DictGet(arguments, "batch_size", 10)
            IN IF IsExc(account_id) THEN Raise("KeyError", "'account_id'")
               ELSE LET chats == JsonLoads(wrapper_get_chats(account_id, batch_size, e))
                    IN IF IsErrorDict(chats)
                       THEN List(<<TextContent(JsonDumps(chats), "unipile://error")>>)
                       ELSE List(<<TextContent(
                                 JsonDumps(List(RecentMessagesLoop(chats.v, 1, <<>>, batch_size, e))),
                                 "unipile://messages/" \o TextOf(account_id))>>)
  ELSE Raise("ValueError", "Unknown tool: " \o name)

\* handle_call_tool: every exception of the try block becomes the error
\* payload (lines 261-268).
ToolResult(r) ==
  IF IsExc(r) THEN List(<<TextContent(ErrorPayload(r), "unipile://error")>>) ELSE r
handle_call_tool(name, arguments, e) == ToolResult(CallToolTry(name, arguments, e))

(***************************************************************************)
(* Inputs of the handlers and of the normaliser.                           *)
(***************************************************************************)
Uris == {[scheme |-> "unipile", rest |-> "accounts"],
         [scheme |-> "unipile", rest |-> "chats"],
         [scheme |-> "https", rest |-> "accounts"]}
ToolNames == {"unipile_get_accounts", "unipile_get_recent_messages", "unipile_get_chats"}
ToolArguments ==
  {PyNone, Dict(<<>>),
   Dict([account_id |-> Str("acc1")]),
   Dict([account_id |-> Str("acc1_MESSAGING"), batch_size |-> 5]),
   Dict([batch_size |-> 5]),
   Dict([account_id |-> PyNone])}

Text(s) == Dict([text |-> Str(s)])
Participant(urn, member) ==
  Dict([backendUrn |-> Str(urn), participantType |-> Dict([member |-> Dict(member)])])
Participants ==
  {Participant("urn:1", [firstName |-> Text("Ada"), lastName |-> Text("Lovelace")]),
   Participant("urn:2", [firstName |-> Text("Alan"), lastName |-> Text("Turing"),
                         headline |-> Text("Logician"),
                         pronoun |-> Dict([standardizedPronoun |-> Str("HE_HIM")])]),
   Participant("urn:3", [firstName |-> Text("Grace")]),
   Participant("urn:4", [firstName |-> Text("Kurt"), lastName |-> PyNone]),
   \* not the member shape: skipped by the tests of lines 39 and 41
   Dict([backendUrn |-> Str("urn:5")]),
   Dict([backendUrn |-> Str("urn:5"), participantType |-> Dict([organization |-> Dict(<<>>)])]),
   Participant("urn:5", [firstName |-> Str("Emmy")]),
   Participant("urn:5", [firstName |-> Dict(<<>>)]),
   Participant("urn:5", [lastName |-> Text("Noether")]),
   \* the member shape with a part that is missing or not structured
   Dict([participantType |-> Dict([member |-> Dict([firstName |-> Text("Emmy")])])]),
   Participant("urn:6", [firstName |-> Text("Emmy"), lastName |-> Str("Noether")]),
   Participant("urn:6", [firstName |-> Text("Emmy"), headline |-> Str("Algebraist")]),
   Participant("urn:6", [firstName |-> Text("Emmy"), pronoun |-> Str("SHE_HER")])}

ParticipantLists == UNION {[1..n -> Participants] : n \in 0..MaxParticipants}

Conversation(ps) == Dict([conversation |-> Dict([conversationParticipants |-> List(ps)])])
Originals ==
  {Conversation(ps) : ps \in ParticipantLists}
  \cup {Dict(<<>>), Dict([conversation |-> Dict(<<>>)]), Dict([conversation |-> PyNone]),
        Dict([conversation |-> Dict([conversationParticipants |-> PyNone])]),
        List(<<>>), PyNone}

MessageBases ==
  {<<>>,
   [id |-> Str("m1")],
   [id |-> Str("m1"), text |-> Str("hello"), timestamp |-> Str("2024-01-01T00:00:00Z"),
    sender_id |-> Str("urn:1"), chat_id |-> Str("chat1")]}
\* original: serialized payloads, truncated text, text that is no JSON, null.
OriginalFields ==
  {JsonDumps(d) : d \in Originals} \cup {JsonText(FALSE, PyNone), Str("n/a"), PyNone}
RawMessages ==
  {Dict(b) : b \in MessageBases}
  \cup {Dict(b @@ [original |-> o]) : b \in MessageBases, o \in OriginalFields}

(***************************************************************************)
(* The operations that return in one step: each is called while the server *)
(* waits for a request, and leaves its result in res.                      *)
(***************************************************************************)
NoLocals == cursor' = PyNone /\ out' = <<>> /\ reqs' = <<>> /\ beat' = 0

ReadResource ==
  /\ pc = "idle"
  /\ \E uri \in Uris, e \in Envs :
       /\ args' = [uri |-> uri]
       /\ env' = e
       /\ res' = handle_read_resource(uri, e)
  /\ op' = "handle_read_resource"
  /\ pc' = "done"
  /\ NoLocals
  /\ UNCHANGED server

CallTool ==
  /\ pc = "idle"
  /\ \E name \in ToolNames, arguments \in ToolArguments, e \in Envs :
       /\ args' = [name |-> name, arguments |-> arguments]
       /\ env' = e
       /\ res' = handle_call_tool(name, arguments, e)
  /\ op' = "handle_call_tool"
  /\ pc' = "done"
  /\ NoLocals
  /\ UNCHANGED server

GetAllMessages ==
  /\ pc = "idle"
  /\ \E account_id \in {Str("acc1"), Str("acc1_MESSAGING")}, e \in Envs :
       /\ args' = [account_id |-> account_id, limit |-> 10]
       /\ env' = e
       /\ res' = wrapper_get_all_messages(account_id, 10, e)
  /\ op' = "get_all_messages"
  /\ pc' = "done"
  /\ NoLocals
  /\ UNCHANGED server

ExtractCoreMessage ==
  /\ pc = "idle"
  /\ \E message \in RawMessages :
       /\ args' = [message |-> message]
       /\ res' = extract_core_message(message)
  /\ op' = "_extract_core_message"
  /\ pc' = "done"
  /\ NoLocals
  /\ UNCHANGED <<server, env>>

ExtractPersonInfo ==
  /\ pc = "idle"
  /\ \E original_data \in Originals :
       /\ args' = [original_data |-> original_data]
       /\ res' = extract_person_info(original_data)
  /\ op' = "_extract_person_info"
  /\ pc' = "done"
  /\ NoLocals
  /\ UNCHANGED <<server, env>>

\* The result has been handed to the caller; the server waits for the next
\* request.  Nothing of the finished operation is kept.
Await ==
  /\ pc = "done"
  /\ pc' = "idle"
  /\ op' = "none"
  /\ args' = <<>>
  /\ env' = NoEnv
  /\ res' = NoResult
  /\ NoLocals
  /\ UNCHANGED server

InitOps ==
  /\ server = FailsFirst
  /\ env = NoEnv
  /\ pc = "idle"
  /\ op = "none"
  /\ args = <<>>
  /\ cursor = PyNone
  /\ out = <<>>
  /\ reqs = <<>>
  /\ beat = 0
  /\ res = NoResult

NextOps ==
  ReadResource \/ CallTool \/ GetAllMessages \/ ExtractCoreMessage \/ ExtractPersonInfo \/ Await

SpecOps == InitOps /\ [][NextOps]_vars

(***************************************************************************)
(* The upstream's page chain of the chat, read off server alone.           *)
(***************************************************************************)
IsMessageList(r) == r.status = "ok" /\ r.data.v.object = Str("MessageList")
\* The page carries a cursor: a non-empty token.
CarriesCursor(r) ==
  IsMessageList(r) /\ "cursor" \in DOMAIN r.data.v /\ r.data.v.cursor \in {Str(c) : c \in Tokens}
\* The page carries an absent or null cursor.
LastPage(r) ==
  IsMessageList(r) /\ ("cursor" \notin DOMAIN r.data.v \/ r.data.v.cursor = PyNone)
KeyOf(req) == IF "cursor" \in DOMAIN req.params.v THEN req.params.v.cursor.v ELSE NoCursor

\* The keys of the pages from key on, following the cursors, at most n of
\* them.
RECURSIVE ChainKeys(_, _, _)
ChainKeys(srv, key, n) ==
  IF n = 0 THEN <<>>
  ELSE IF CarriesCursor(srv[key])
       THEN <<key>> \o ChainKeys(srv, srv[key].data.v.cursor.v, n - 1)
       ELSE <<key>>

Chain(srv) == ChainKeys(srv, NoCursor, Cardinality(CursorKeys) + 1)

\* The chat is served as a chain of P pages: every page but the last
\* carries a cursor, the last an absent or null one.
IsPageChain(srv) ==
  LET ch == Chain(srv)
  IN /\ Len(ch) <= Cardinality(CursorKeys)
     /\ LastPage(srv[ch[Len(ch)]])

RECURSIVE ConcatItems(_, _, _)
ConcatItems(srv, ch, i) ==
  IF i > Len(ch) THEN <<>>
  ELSE srv[ch[i]].data.v.items.v \o ConcatItems(srv, ch, i + 1)

\* The N messages of the chain, in upstream order.
ChainItems(srv) == ConcatItems(srv, Chain(srv), 1)

\* The run ends at some page: a failing call, another envelope, or a cursor
\* that is absent, null or empty, within n pages.
RECURSIVE ChainEnds(_, _, _)
ChainEnds(srv, key, n) ==
  \/ ~CarriesCursor(srv[key])
  \/ n > 1 /\ ChainEnds(srv, srv[key].data.v.cursor.v, n - 1)

\* Every transport call returns: no page of the chat fails.
AllCallsReturn(srv) == \A k \in CursorKeys : srv[k].status = "ok"

Finished == pc = "done" /\ op \in {"get_messages_as_list", "get_chat_messages"}

\* C3: when the chat is served as a chain of P pages holding N messages, a
\* finished run has yielded exactly those N messages in upstream order, has
\* made exactly P transport calls, and get_messages_as_list returns them.
C3_ChainYieldsAll ==
  (Finished /\ IsPageChain(server)) =>
     /\ out = ChainItems(server)
     /\ Len(reqs) = Len(Chain(server))
     /\ (\A i \in 1..Len(reqs) : reqs[i].params.v.limit = args.batch_size)
     /\ (op = "get_messages_as_list" => res = List(ChainItems(server)))

\* A run over three pages with messages in the first and in the last page.
C3_Witness ==
  /\ Finished /\ IsPageChain(server) /\ op = "get_messages_as_list"
  /\ Len(Chain(server)) = 3 /\ Len(reqs) = 3
  /\ Len(server[NoCursor].data.v.items.v) = MaxItems
  /\ Len(server[Chain(server)[3]].data.v.items.v) > 0
  /\ res = List(ChainItems(server))

Failed(req) == server[KeyOf(req)].status = "error"

\* C8: a failed transport call is the last call of its run; the run is over
\* and its caller has the error: get_messages_as_list raises it, and
\* get_chat_messages returns the error payload, neither with any message.
C8_FailureAborts ==
  \A i \in 1..Len(reqs) :
     Failed(reqs[i]) =>
        /\ i = Len(reqs)
        /\ pc = "done"
        /\ (op = "get_messages_as_list" => res = Raise("HTTPError", "500 Server Error"))
        /\ (op = "get_chat_messages" =>
              res = JsonDumps(Dict([error |-> Str("500 Server Error")])))

\* The third call fails after two pages that had messages.
C8_Witness ==
  /\ pc = "done" /\ op = "get_chat_messages"
  /\ Len(reqs) = 3 /\ Failed(reqs[3])
  /\ Len(out) > MaxItems
  /\ IsErrorDict(JsonLoads(res))

\* C9: the first request of a run carries no cursor; every later request
\* follows a MessageList response that carried a non-empty cursor and
\* carries exactly that cursor; a run that has not yet called has no cursor.
C9_CursorChain ==
  /\ (pc = "running" /\ reqs = <<>>) => cursor = PyNone
  /\ \A i \in 1..Len(reqs) :
       /\ reqs[i].chat_id = args.chat_id
       /\ i = 1 => "cursor" \notin DOMAIN reqs[i].params.v
       /\ i > 1 =>
            /\ CarriesCursor(server[KeyOf(reqs[i - 1])])
            /\ "cursor" \in DOMAIN reqs[i].params.v
            /\ reqs[i].params.v.cursor = server[KeyOf(reqs[i - 1])].data.v.cursor

\* A new run has made its first call, without a cursor, after an earlier run
\* on the same pages failed behind the first page, its cursor still set.
C9_Witness ==
  /\ pc = "running" /\ Len(reqs) = 1
  /\ "cursor" \notin DOMAIN reqs[1].params.v
  /\ CarriesCursor(server[NoCursor])
  /\ res = Raise("HTTPError", "500 Server Error")
  /\ cursor # PyNone

\* C10 as claimed: whenever every transport call returns, a run terminates.
C10_AlwaysTerminates ==
  [](AllCallsReturn(server) => (pc = "running" ~> pc = "done"))

\* C10 amended: a run terminates when the upstream's chain of cursors ends:
\* some page fails, has another envelope, or has an absent, null or empty
\* cursor.
C10_TerminatesOnEndingChain ==
  [](ChainEnds(server, NoCursor, Cardinality(CursorKeys)) => (pc = "running" ~> pc = "done"))

\* A run over three pages has terminated.
C10_Witness ==
  /\ Finished /\ Len(reqs) = 3 /\ AllCallsReturn(server)
  /\ ChainEnds(server, NoCursor, Cardinality(CursorKeys))

(***************************************************************************)
(* The handlers and the aggregation.                                       *)
(***************************************************************************)
Handled == pc = "done" /\ op \in {"handle_read_resource", "handle_call_tool"}

\* The JSON text of a result: the string itself, or the text of the one
\* TextContent of the returned list.
PayloadOf(r) == IF r.t = "list" THEN r.v[1].v.text ELSE r
IsErrorResult(r) == ~IsExc(r) /\ IsErrorDict(JsonLoads(PayloadOf(r)))

\* The errors the request runs into: an unsupported scheme, an unknown
\* resource path, an unknown tool, missing arguments, a transport failure.
ErrorOccurs ==
  \/ /\ op = "handle_read_resource"
     /\ \/ args.uri.scheme # "unipile"
        \/ args.uri.rest # "accounts"
        \/ env.accounts.status # "ok"
  \/ /\ op = "handle_call_tool"
     /\ \/ args.name \notin {"unipile_get_accounts", "unipile_get_recent_messages"}
        \/ args.name = "unipile_get_accounts" /\ env.accounts.status # "ok"
        \/ /\ args.name = "unipile_get_recent_messages"
           /\ \/ ~Truthy(args.arguments)
              \/ "account_id" \notin DOMAIN args.arguments.v
              \/ env.chats.status # "ok"

\* C1: no exception leaves a handler, and a request that runs into an error
\* is answered with the JSON text {"error": <description>}.
C1_ErrorsBecomePayloads ==
  Handled => (~IsExc(res) /\ (ErrorOccurs => IsErrorResult(res)))

\* A per-account aggregation through the tool, called with an account id.
Aggregation ==
  /\ pc = "done" /\ op = "handle_call_tool"
  /\ args.name = "unipile_get_recent_messages"
  /\ args.arguments.t = "dict"
  /\ "account_id" \in DOMAIN args.arguments.v
  /\ args.arguments.v.account_id.t = "str"

ListedChats == env.chats.data.v.items.v
ChatsListed ==
  /\ env.chats.status = "ok"
  /\ env.chats.data.v.object = Str("ChatList")
HasId(chat) == "id" \in DOMAIN chat.v /\ chat.v.id # Str("")

\* The messages of one chat as the claim describes them: the chat's pages
\* in order, each message normalised and carrying the chat's chat_info.
ChatInfoOf(chat) ==
  Dict([id |-> chat.v.id, name |-> chat.v.name,
        account_type |-> chat.v.account_type, account_id |-> chat.v.account_id])
TaggedMessages(chat) ==
  LET items == ChainItems(env.messages[chat.v.id.v])
  IN [j \in 1..Len(items) |->
        Dict([id |-> items[j].v.id, text |-> Str(""), timestamp |-> Str(""),
              sender_id |-> Str(""), chat_info |-> ChatInfoOf(chat)])]

RECURSIVE ConcatChats(_, _)
ConcatChats(chats, i) ==
  IF i > Len(chats) THEN <<>>
  ELSE (IF HasId(chats[i]) THEN TaggedMessages(chats[i]) ELSE <<>>) \o ConcatChats(chats, i + 1)

\* Every chat that is listed with an id is served as a chain of pages.
AllFetchesSucceed ==
  \A i \in 1..Len(ListedChats) :
     HasId(ListedChats[i]) => IsPageChain(env.messages[ListedChats[i].v.id.v])

\* C4: an aggregation whose chat listing and message fetches all succeed
\* returns the messages of the chats that have an id, chat by chat in
\* listing order and in fetched order, each with the chat_info of its chat.
C4_TaggedConcatenation ==
  (Aggregation /\ ChatsListed /\ AllFetchesSucceed) =>
     JsonLoads(PayloadOf(res)) = List(ConcatChats(ListedChats, 1))

\* C5: an aggregation over an account for which the upstream lists zero
\* chats, without a transport failure, returns the empty list.
C5_ZeroChatsEmptyList ==
  (Aggregation /\ ChatsListed /\ ListedChats = <<>>) =>
     JsonLoads(PayloadOf(res)) = List(<<>>)

(***************************************************************************)
(* The normaliser.                                                         *)
(***************************************************************************)
IsText(x) == x.t = "dict" /\ "text" \in DOMAIN x.v
Structured(member, k) == k \notin DOMAIN member \/ member[k] = PyNone \/ member[k].t = "dict"

\* The participant has the shape the extraction reads: participantType.member
\* with a structured firstName, a backendUrn, and lastName, headline and
\* pronoun structured where present.
HasShape(p) ==
  /\ "participantType" \in DOMAIN p.v
  /\ "member" \in DOMAIN p.v.participantType.v
  /\ LET member == p.v.participantType.v.member.v
     IN /\ "firstName" \in DOMAIN member
        /\ IsText(member.firstName)
        /\ "backendUrn" \in DOMAIN p.v
        /\ Structured(member, "lastName")
        /\ Structured(member, "headline")
        /\ Structured(member, "pronoun")

PartOr(member, k, part) ==
  IF k \in DOMAIN member /\ member[k] # PyNone /\ part \in DOMAIN member[k].v
  THEN member[k].v[part] ELSE Str("")

\* The entry of a participant that has the shape.
EntryOf(p) ==
  LET member == p.v.participantType.v.member.v
  IN Dict([name |-> Str(JoinName(member.firstName.v.text.v, PartOr(member, "lastName", "text").v)),
           headline |-> PartOr(member, "headline", "text"),
           pronoun |-> PartOr(member, "pronoun", "standardizedPronoun")])

PersonsCall ==
  /\ pc = "done" /\ op = "_extract_person_info"
  /\ args.original_data.t = "dict"
  /\ "conversation" \in DOMAIN args.original_data.v
  /\ args.original_data.v.conversation.t = "dict"
  /\ "conversationParticipants" \in DOMAIN args.original_data.v.conversation.v
  /\ args.original_data.v.conversation.v.conversationParticipants.t = "list"

\* C6: the extracted map has exactly the entries of the participants that
\* have the shape, keyed by backendUrn; the other participants are skipped
\* and take nothing away from it.
C6_OneEntryPerMember ==
  PersonsCall =>
     LET ps == args.original_data.v.conversation.v.conversationParticipants.v
         shaped == {i \in 1..Len(ps) : HasShape(ps[i])}
     IN /\ DOMAIN res.v = {ps[i].v.backendUrn.v : i \in shaped}
        /\ \A i \in shaped : res.v[ps[i].v.backendUrn.v] = EntryOf(ps[i])

CoreFields == {"id", "text", "timestamp", "sender_id", "chat_info"}
FieldOr(message, k, default) == IF k \in DOMAIN message.v THEN message.v[k] ELSE default

\* The message has no original, or an original that does not parse: text
\* that is no JSON, or no text at all.
NoParsedOriginal(message) ==
  \/ "original" \notin DOMAIN message.v
  \/ message.v.original.t # "str"
  \/ "json" \notin DOMAIN message.v.original
  \/ ~message.v.original.json.valid

\* C7: normalisation returns a core message: id, text, timestamp, sender_id
\* and chat_info of the raw message, empty where it has none, and no
\* participants when the original is missing or does not parse.
C7_CoreMessageShape ==
  (pc = "done" /\ op = "_extract_core_message") =>
     /\ ~IsExc(res)
     /\ res.t = "dict"
     /\ CoreFields \subseteq DOMAIN res.v
     /\ DOMAIN res.v \subseteq CoreFields \cup {"participants"}
     /\ \A k \in CoreFields \ {"chat_info"} : res.v[k] = FieldOr(args.message, k, Str(""))
     /\ res.v.chat_info = FieldOr(args.message, "chat_info", Dict(<<>>))
     /\ NoParsedOriginal(args.message) => "participants" \notin DOMAIN res.v

(***************************************************************************)
(* A page with another envelope.                                           *)
(***************************************************************************)
\* The page answers with a body whose object is not MessageList.
OtherEnvelope(r) == r.status = "ok" /\ r.data.v.object # Str("MessageList")

\* Page k of the chat, the last of the pages the cursors lead to, has
\* another envelope; the pages 1..k-1 are MessageList pages with a cursor.
EndsInOtherEnvelope(srv) == OtherEnvelope(srv[Chain(srv)[Len(Chain(srv))]])

\* The keys of the pages 1..k-1 and their items in upstream order.
PagesBefore(srv) == SubSeq(Chain(srv), 1, Len(Chain(srv)) - 1)
ItemsBefore(srv) == ConcatItems(srv, PagesBefore(srv), 1)

\* C11: when page k has an envelope other than MessageList the run ends
\* with the request for page k and without an exception; what was yielded
\* is exactly the items of pages 1..k-1, and the caller gets them as a
\* list: get_messages_as_list the messages, get_chat_messages the JSON text
\* of their core messages, not the error payload.
C11_OtherEnvelopeEndsRun ==
  (Finished /\ EndsInOtherEnvelope(server)) =>
     /\ Len(reqs) = Len(Chain(server))
     /\ out = ItemsBefore(server)
     /\ ~IsExc(res)
     /\ (op = "get_messages_as_list" => res = List(ItemsBefore(server)))
     /\ (op = "get_chat_messages" =>
           LET messages == JsonLoads(res)
           IN /\ messages.t = "list"
              /\ Len(messages.v) = Len(ItemsBefore(server))
              /\ \A i \in 1..Len(messages.v) :
                    messages.v[i].v.id = ItemsBefore(server)[i].v.id)

\* A run whose third page has another envelope, holds an item and names a
\* cursor, after two pages with messages; get_chat_messages returned.
C11_Witness ==
  /\ Finished /\ op = "get_chat_messages"
  /\ EndsInOtherEnvelope(server)
  /\ Len(Chain(server)) = 3
  /\ "cursor" \in DOMAIN server[Chain(server)[3]].data.v
  /\ Len(server[Chain(server)[3]].data.v.items.v) > 0
  /\ Len(server[NoCursor].data.v.items.v) > 0
  /\ Len(server[Chain(server)[2]].data.v.items.v) > 0
  /\ Len(JsonLoads(res).v) = Len(out)

====
